---- MODULE Spec2Model ----
(***************************************************************************)
(* A model of the FTP client of package ftp (client.go, reply.go): the     *)
(* reply reader, the PASV/EPSV decoders, the passive transfer sequence,    *)
(* Do, Login, Quit and Close, and the predicates and rendering of replies. *)
(* Text is kept as TLA+ strings; Go's 0-based half-open slices s[lo:hi]    *)
(* are written Slice(s, lo, hi).                                           *)
(***************************************************************************)
EXTENDS Integers, Sequences, FiniteSets, TLC

VARIABLES
    network,     \* client.c.RemoteAddr().Network()
    constructed, \* NewClient has returned a *Client
    Welcome,     \* client.Welcome
    pc,          \* position of the calling goroutine
    stack,       \* return positions of the calls in progress
    op,          \* the exported operation in progress and its arguments
    command,     \* sendCommand's argument
    code,        \* response's local: the parsed code
    lines,       \* response's local: message lines collected so far
    ret,         \* (Reply, error) handed back by response / sendCommand
    conn,        \* transfer's named result conn / the caller's data connection
    err,         \* transfer's named result err
    sock,        \* the dialed data socket: "none", "open", "closed"
    sockCloses,  \* Close calls made on the dialed data socket
    addr,        \* the decoded passive address
    result,      \* what the last exported operation returned
    written,     \* lines put on the control channel by the operation in progress
    log,         \* events of the operation in progress, in order
    given,       \* decoder runs: the pieces the reply message is made of;
                 \* reader runs: the stream the line source holds
    msg,         \* decoder runs: the reply message under decoding
    decoded,     \* decoder runs: what the decoder returned;
                 \* classification runs: what the predicates of Code returned
    closed       \* client.proto.Close has been called on the control connection

vars == <<network, constructed, Welcome, pc, stack, op, command, code, lines, ret,
          conn, err, sock, sockCloses, addr, result, written, log, given, msg, decoded,
          closed>>

----------------------------------------------------------------------------
(* Bounds of the model. *)

\* Interior lines a multi-line reply may carry before the source must end it.
MaxCont == 2

\* Numbers a PASV message may carry beyond the six that are decoded.
MaxExtra == 1

\* Pieces an EPSV message is made of.
MaxTokens == 4

\* Lines a stream handed to the reply reader may hold after its first line, and
\* lines the message of a rendered Reply may have.
MaxStream == 3

\* Replies, whole or broken, a stream read by successive calls is made of.
MaxReplies == 3

\* Commands two callers sharing a Client may put on the wire between them.
MaxCommands == 3

\* Lines the control channel holds unread before the server waits with its next
\* answer.
MaxUnread == 2

----------------------------------------------------------------------------
(* strings, strconv *)

Max(S) == CHOOSE x \in S : \A y \in S : y <= x
Min(S) == CHOOSE x \in S : \A y \in S : x <= y

Char(s, i) == SubSeq(s, i, i)

Slice(s, lo, hi) == SubSeq(s, lo + 1, hi)

HasPrefix(s, prefix) ==
    Len(s) >= Len(prefix) /\ SubSeq(s, 1, Len(prefix)) = prefix

\* strings.LastIndex: the 0-based index of the last occurrence, or -1.
LastIndex(s, sub) ==
    LET occ == {i \in 0..(Len(s) - Len(sub)) : Slice(s, i, i + Len(sub)) = sub}
    IN  IF occ = {} THEN -1 ELSE Max(occ)

\* strings.Index: the 0-based index of the first occurrence, or -1.
Index(s, sub) ==
    LET occ == {i \in 0..(Len(s) - Len(sub)) : Slice(s, i, i + Len(sub)) = sub}
    IN  IF occ = {} THEN -1 ELSE Min(occ)

Contains(s, sub) == Index(s, sub) >= 0

\* strings.Split with a non-empty separator.
RECURSIVE Split(_, _)
Split(s, sep) ==
    LET i == Index(s, sep)
    IN  IF i < 0 THEN <<s>>
        ELSE <<Slice(s, 0, i)>> \o Split(Slice(s, i + Len(sep), Len(s)), sep)

RECURSIVE Join(_, _)
Join(ls, sep) ==
    IF Len(ls) = 0 THEN ""
    ELSE IF Len(ls) = 1 THEN ls[1]
    ELSE ls[1] \o sep \o Join(Tail(ls), sep)

Digits == {"0", "1", "2", "3", "4", "5", "6", "7", "8", "9"}

DigitVal(c) ==
    CASE c = "0" -> 0 [] c = "1" -> 1 [] c = "2" -> 2 [] c = "3" -> 3
      [] c = "4" -> 4 [] c = "5" -> 5 [] c = "6" -> 6 [] c = "7" -> 7
      [] c = "8" -> 8 [] c = "9" -> 9

IsDigits(s) == \A i \in 1..Len(s) : Char(s, i) \in Digits

RECURSIVE DecimalValue(_)
DecimalValue(s) ==
    IF Len(s) = 0 THEN 0
    ELSE DecimalValue(SubSeq(s, 1, Len(s) - 1)) * 10 + DigitVal(Char(s, Len(s)))

\* strconv.Itoa of a code the reader produced.
RECURSIVE Itoa(_)
Itoa(n) ==
    LET d == CHOOSE c \in Digits : DigitVal(c) = n % 10
    IN  IF n < 0 THEN "-" \o Itoa(0 - n)
        ELSE IF n < 10 THEN d
        ELSE Itoa(n \div 10) \o d

NoError == [kind |-> "nil", code |-> 0, msg |-> ""]
NewError(kind, text) == [kind |-> kind, code |-> 0, msg |-> text]

\* strconv.Atoi: an optional sign, then one or more decimal digits. The texts
\* the model feeds it have at most nine digits, so the value always fits an int.
Atoi(s) ==
    LET signed == Len(s) > 0 /\ Char(s, 1) \in {"+", "-"}
        body   == IF signed THEN SubSeq(s, 2, Len(s)) ELSE s
        neg    == signed /\ Char(s, 1) = "-"
    IN  IF Len(body) = 0 \/ ~IsDigits(body)
        THEN [n |-> 0, err |-> NewError("strconv", "invalid syntax")]
        ELSE [n |-> IF neg THEN 0 - DecimalValue(body) ELSE DecimalValue(body),
              err |-> NoError]

\* Go's conversion byte(n) of a non-negative int.
byte(n) == n % 256

----------------------------------------------------------------------------
(* reply.go: codes and replies *)

CodePassive == 227
CodeExtendedPassive == 229
CodeNeedPassword == 331

Reply(c, m) == [Code |-> c, Msg |-> m]
ZeroReply == Reply(0, "")

\* Code.String
CodeString(c) == Itoa(c)

\* Reply.String, the first line of a multi-line rendering marked like the last.
StringSpaceFirst(r) ==
    LET ls == Split(r.Msg, "\n")
        n  == Len(ls)
    IN  IF n > 1
        THEN Join([i \in 1..n |-> IF i = 1 \/ i = n THEN CodeString(r.Code) \o " " \o ls[i]
                                  ELSE ls[i]], "\r\n")
        ELSE CodeString(r.Code) \o " " \o r.Msg

\* Reply.String: "<code>-" before the first line and "<code> " before the last
\* one of a message of several lines, "<code> <message>" otherwise.
String(r) ==
    LET ls == Split(r.Msg, "\n")
        n  == Len(ls)
    IN  IF n > 1
        THEN Join([i \in 1..n |-> IF i = 1 THEN CodeString(r.Code) \o "-" \o ls[i]
                                  ELSE IF i = n THEN CodeString(r.Code) \o " " \o ls[i]
                                  ELSE ls[i]], "\r\n")
        ELSE CodeString(r.Code) \o " " \o r.Msg

\* A Reply used as an error value.
ReplyError(r) == [kind |-> "Reply", code |-> r.Code, msg |-> r.Msg]

Preliminary(c) == c \div 100 = 1

\* Code.Complete, with the positive completions left out.
CompleteNegativeOnly(c) ==
    LET firstDigit == c \div 100
    IN  firstDigit = 4 \/ firstDigit = 5

Complete(c) ==
    LET firstDigit == c \div 100
    IN  firstDigit = 2 \/ firstDigit = 4 \/ firstDigit = 5

Temporary(c) == c \div 100 = 4

\* Code.Positive, with PositiveComplete's test in its place.
PositiveAsComplete(c) == c \div 100 = 2

Positive(c) ==
    LET firstDigit == c \div 100
    IN  firstDigit = 1 \/ firstDigit = 2 \/ firstDigit = 3

\* Code.PositiveComplete, with Positive's test in its place.
PositiveCompleteAsPositive(c) == c \div 100 \in {1, 2, 3}

PositiveComplete(c) == c \div 100 = 2

----------------------------------------------------------------------------
(* client.go: the PASV and EPSV decoders *)

TCPAddr(ip, port) == [IP |-> ip, Port |-> port]
NilAddr == TCPAddr(<<>>, 0)

\* The end of the longest run of digits that starts at position i (i - 1: none).
DigitRunEnd(s, i) ==
    LET ends == {j \in i..Len(s) : \A k \in i..j : Char(s, k) \in Digits}
    IN  IF ends = {} THEN i - 1 ELSE Max(ends)

\* The k groups ([0-9]+) of pasvRegexp matched from position i on, each but the
\* last followed by a comma; <<>> when there is no match at i. A group followed
\* by a comma cannot be cut short, and the last one is greedy.
RECURSIVE pasvGroups(_, _, _)
pasvGroups(s, i, k) ==
    LET e == DigitRunEnd(s, i)
    IN  IF e < i THEN <<>>
        ELSE IF k = 1 THEN <<[from |-> i, to |-> e]>>
        ELSE IF e + 1 <= Len(s) /\ Char(s, e + 1) = ","
        THEN LET rest == pasvGroups(s, e + 2, k - 1)
             IN  IF rest = <<>> THEN <<>> ELSE <<[from |-> i, to |-> e]>> \o rest
        ELSE <<>>

\* pasvRegexp.FindStringSubmatch: the leftmost match and its six groups, the
\* whole match first; <<>> stands for nil.
FindStringSubmatch(s) ==
    LET starts == {i \in 1..Len(s) : pasvGroups(s, i, 6) # <<>>}
    IN  IF starts = {} THEN <<>>
        ELSE LET g == pasvGroups(s, Min(starts), 6)
             IN  <<SubSeq(s, g[1].from, g[6].to)>>
                 \o [k \in 1..6 |-> SubSeq(s, g[k].from, g[k].to)]

\* parsePasvReply that reads the port low byte first.
parsePasvReplySwapped(m) ==
    LET numberStrings == FindStringSubmatch(m)
    IN  IF numberStrings = <<>>
        THEN [addr |-> NilAddr, err |-> NewError("errors", "PASV reply provided no port")]
        ELSE LET numbers == [k \in 1..7 |-> byte(Atoi(numberStrings[k]).n)]
             IN  [addr |-> TCPAddr(SubSeq(numbers, 2, 5), numbers[7] * 256 + numbers[6]),
                  err |-> NoError]

\* numbers[k] of the code is numbers[k + 1] here. int(numbers[5])<<8 | int(numbers[6])
\* is numbers[5] * 256 + numbers[6], both being bytes.
parsePasvReply(m) ==
    LET numberStrings == FindStringSubmatch(m)
    IN  IF numberStrings = <<>>
        THEN [addr |-> NilAddr, err |-> NewError("errors", "PASV reply provided no port")]
        ELSE LET numbers == [k \in 1..7 |-> byte(Atoi(numberStrings[k]).n)]
             IN  [addr |-> TCPAddr(SubSeq(numbers, 2, 5), numbers[6] * 256 + numbers[7]),
                  err |-> NoError]

epsvStart == "(|||"
epsvEnd == "|)"

\* parseEpsvReply that looks for the first "(|||" instead of the last.
parseEpsvReplyFirstStart(m) ==
    LET occ == {i \in 0..(Len(m) - Len(epsvStart)) :
                    Slice(m, i, i + Len(epsvStart)) = epsvStart}
        start == IF occ = {} THEN -1 ELSE Min(occ) + Len(epsvStart)
        end == LastIndex(m, epsvEnd)
    IN  IF occ = {} \/ end = -1 \/ end <= start
        THEN [port |-> 0, err |-> NewError("errors", "EPSV reply provided no port")]
        ELSE LET a == Atoi(Slice(m, start, end)) IN [port |-> a.n, err |-> a.err]

parseEpsvReply(m) ==
    LET first == LastIndex(m, epsvStart)
        start == first + Len(epsvStart)
        end == LastIndex(m, epsvEnd)
    IN  IF first = -1
        THEN [port |-> 0, err |-> NewError("errors", "EPSV reply provided no port")]
        ELSE IF end = -1 \/ end <= start
        THEN [port |-> 0, err |-> NewError("errors", "EPSV reply provided no port")]
        ELSE LET a == Atoi(Slice(m, start, end)) IN [port |-> a.n, err |-> a.err]

----------------------------------------------------------------------------
(* The environment: what the control connection and the dialer may do. *)

\* Lines textproto's ReadLine may deliver as the first line of a reply.
ServerLines ==
    {"200 ok", "150 go", "227 1,2,3,4,4,7", "227 no", "229 (|||1031|)", "229 no",
     "331 pw", "426 ab", "500 e", "12", "ab1 x", "200x", "200-a"}

\* Lines it may deliver inside a multi-line reply: a plain line, a line with
\* another code, and the line that ends a reply with code 200. The stream runs
\* below read a wider choice of lines.
ContLines == {"b", "500 e", "200 ok"}

\* The control connection's remote IP (client.c.RemoteAddr().(*net.TCPAddr).IP).
RemoteIP == <<198, 51, 100, 9>>

Networks == {"tcp", "tcp4", "tcp6"}
TransferCommands == {"RETR f", "STOR f"}

Event(ev, s, n) == [ev |-> ev, s |-> s, n |-> n]

\* Where in the history of the operation an event of a kind stands.
At(ev) == {i \in DOMAIN log : log[i].ev = ev}
Happened(ev) == At(ev) # {}

NoPieces == [pre |-> "", items |-> <<>>, post |-> ""]
NotDecoded == [addr |-> NilAddr, err |-> NoError]

NoOp == [name |-> "none", command |-> "", dataType |-> ""]
NoResult == [op |-> "none", conn |-> "nil", err |-> NoError]
NoReturn == [reply |-> ZeroReply, err |-> NoError]

----------------------------------------------------------------------------
(* The state machine *)

Init ==
    /\ network \in Networks
    /\ constructed = FALSE
    /\ Welcome = ZeroReply
    /\ pc = "idle"
    /\ stack = <<>>
    /\ op = NoOp
    /\ command = ""
    /\ code = 0
    /\ lines = <<>>
    /\ ret = NoReturn
    /\ conn = "nil"
    /\ err = NoError
    /\ sock = "none"
    /\ sockCloses = 0
    /\ addr = NilAddr
    /\ result = NoResult
    /\ written = <<>>
    /\ log = <<>>
    /\ given = NoPieces
    /\ msg = ""
    /\ decoded = NotDecoded
    /\ closed = FALSE

decoderVars == <<given, msg, decoded>>

\* A call returns r to the position on top of the stack.
Return(r) ==
    /\ ret' = r
    /\ pc' = Head(stack)
    /\ stack' = Tail(stack)

\* An exported operation begins: its history starts empty.
Begin(o) ==
    /\ op' = o
    /\ result' = NoResult
    /\ written' = <<>>
    /\ log' = <<Event("call", o.name, 0)>>
    /\ ret' = NoReturn

\* An exported operation returns to its caller.
Finish(r) ==
    /\ pc' = "idle"
    /\ result' = r
    /\ log' = Append(log, Event("return", r.err.kind, r.err.code))

(* ---- sendCommand, response ---- *)

\* sendCommand: PrintfLine writes the command and CRLF, or fails; on a closed
\* connection it can only fail.
sendCommand_write ==
    /\ pc = "sendCommand"
    /\ \/ /\ ~closed
          /\ written' = Append(written, command \o "\r\n")
          /\ log' = Append(log, Event("write", command, 0))
          /\ pc' = "response"
          /\ UNCHANGED <<stack, ret>>
       \/ /\ Return([reply |-> ZeroReply, err |-> NewError("transport", "write")])
          /\ log' = Append(log, Event("writeError", command, 0))
          /\ UNCHANGED written
    /\ UNCHANGED <<network, constructed, Welcome, op, command, code, lines, conn, err,
                   sock, sockCloses, addr, result, decoderVars, closed>>

\* response's handling of its first line, "ddd-" taken like "ddd ".
responseFirstDashDone(line) ==
    IF Len(line) < 4
    THEN [done |-> TRUE, code |-> 0, lines |-> <<>>, reply |-> ZeroReply,
          err |-> NewError("errors", "Short response line in FTP")]
    ELSE LET a == Atoi(Slice(line, 0, 3))
         IN  IF a.err # NoError
             THEN [done |-> TRUE, code |-> 0, lines |-> <<>>, reply |-> ZeroReply,
                   err |-> a.err]
             ELSE IF Char(line, 4) \in {"-", " "}
             THEN [done |-> TRUE, code |-> a.n, lines |-> <<>>,
                   reply |-> Reply(a.n, Slice(line, 4, Len(line))), err |-> NoError]
             ELSE [done |-> TRUE, code |-> 0, lines |-> <<>>, reply |-> ZeroReply,
                   err |-> NewError("errors", "Expected space after FTP response code")]

\* response's handling of its first line, a short line taken for an empty reply.
responseFirstShortAccepted(line) ==
    IF Len(line) < 4
    THEN [done |-> TRUE, code |-> 0, lines |-> <<>>, reply |-> ZeroReply, err |-> NoError]
    ELSE LET a == Atoi(Slice(line, 0, 3))
         IN  IF a.err # NoError
             THEN [done |-> TRUE, code |-> 0, lines |-> <<>>, reply |-> ZeroReply,
                   err |-> a.err]
             ELSE IF Char(line, 4) = "-"
             THEN [done |-> FALSE, code |-> a.n, lines |-> <<Slice(line, 4, Len(line))>>,
                   reply |-> Reply(a.n, ""), err |-> NoError]
             ELSE IF Char(line, 4) = " "
             THEN [done |-> TRUE, code |-> a.n, lines |-> <<>>,
                   reply |-> Reply(a.n, Slice(line, 4, Len(line))), err |-> NoError]
             ELSE [done |-> TRUE, code |-> 0, lines |-> <<>>, reply |-> ZeroReply,
                   err |-> NewError("errors", "Expected space after FTP response code")]

\* What response makes of its first line: done with a result, or into the loop.
responseFirst(line) ==
    IF Len(line) < 4
    THEN [done |-> TRUE, code |-> 0, lines |-> <<>>, reply |-> ZeroReply,
          err |-> NewError("errors", "Short response line in FTP")]
    ELSE LET a == Atoi(Slice(line, 0, 3))
         IN  IF a.err # NoError
             THEN [done |-> TRUE, code |-> 0, lines |-> <<>>, reply |-> ZeroReply,
                   err |-> a.err]
             ELSE IF Char(line, 4) = "-"
             THEN [done |-> FALSE, code |-> a.n, lines |-> <<Slice(line, 4, Len(line))>>,
                   reply |-> Reply(a.n, ""), err |-> NoError]
             ELSE IF Char(line, 4) = " "
             THEN [done |-> TRUE, code |-> a.n, lines |-> <<>>,
                   reply |-> Reply(a.n, Slice(line, 4, Len(line))), err |-> NoError]
             ELSE [done |-> TRUE, code |-> 0, lines |-> <<>>, reply |-> ZeroReply,
                   err |-> NewError("errors", "Expected space after FTP response code")]

ReplyEvent(r) ==
    IF r.err = NoError THEN Event("reply", "", r.reply.Code)
    ELSE Event("replyError", r.err.kind, r.reply.Code)

\* response: the first ReadLine and what follows from it.
response_first ==
    /\ pc = "response"
    /\ \/ /\ Return([reply |-> ZeroReply, err |-> NewError("transport", "read")])
          /\ log' = Append(log, Event("replyError", "transport", 0))
          /\ UNCHANGED <<code, lines>>
       \/ \E line \in ServerLines :
            LET f == responseFirst(line)
            IN  IF f.done
                THEN /\ Return([reply |-> f.reply, err |-> f.err])
                     /\ log' = Append(log, ReplyEvent(f))
                     /\ UNCHANGED <<code, lines>>
                ELSE /\ code' = f.code
                     /\ lines' = f.lines
                     /\ pc' = "response_loop"
                     /\ UNCHANGED <<stack, ret, log>>
    /\ UNCHANGED <<network, constructed, Welcome, op, command, conn, err, sock,
                   sockCloses, addr, result, written, decoderVars, closed>>

\* response: one turn of the loop that reads a multi-line reply.
response_loop ==
    /\ pc = "response_loop"
    /\ LET endPrefix == Itoa(code) \o " "
           leave(ls, e) ==
               LET r == [reply |-> Reply(code, Join(ls, "\n")), err |-> e]
               IN  /\ Return(r)
                   /\ log' = Append(log, ReplyEvent(r))
                   /\ code' = 0
                   /\ lines' = <<>>
       IN  \/ leave(lines, NewError("transport", "read"))
           \/ \E line \in ContLines :
                IF HasPrefix(line, endPrefix)
                THEN leave(Append(lines, Slice(line, Len(endPrefix), Len(line))), NoError)
                ELSE /\ Len(lines) <= MaxCont
                     /\ lines' = Append(lines, line)
                     /\ UNCHANGED <<pc, stack, ret, code, log>>
    /\ UNCHANGED <<network, constructed, Welcome, op, command, conn, err, sock,
                   sockCloses, addr, result, written, decoderVars, closed>>

(* ---- NewClient ---- *)

\* NewClient: wrap the connection and read the greeting.
NewClient_call ==
    /\ pc = "idle"
    /\ ~constructed
    /\ Begin([name |-> "NewClient", command |-> "", dataType |-> ""])
    /\ pc' = "response"
    /\ stack' = <<"NewClient_ret">>
    /\ UNCHANGED <<network, constructed, Welcome, command, code, lines, conn, err,
                   sock, sockCloses, addr, decoderVars, closed>>

\* NewClient: the greeting has been read, or not.
NewClient_ret ==
    /\ pc = "NewClient_ret"
    /\ IF ret.err # NoError
       THEN /\ Finish([op |-> "NewClient", conn |-> "nil", err |-> ret.err])
            /\ UNCHANGED <<constructed, Welcome>>
       ELSE /\ Welcome' = ret.reply
            /\ constructed' = TRUE
            /\ Finish([op |-> "NewClient", conn |-> "nil", err |-> NoError])
    /\ UNCHANGED <<network, stack, op, command, code, lines, ret, conn, err, sock,
                   sockCloses, addr, written, decoderVars, closed>>

(* ---- transfer (Text, Binary) ---- *)

\* The passive command obtainPassiveAddress sends, with the test inverted.
passiveCommandInverted(net) == IF net = "tcp6" THEN "PASV" ELSE "EPSV"

\* The passive command obtainPassiveAddress sends.
passiveCommand(net) == IF net = "tcp6" THEN "EPSV" ELSE "PASV"

\* The reply code obtainPassiveAddress accepts, loosened to any 2yz code.
passiveCodeOkLoose(net, c) == PositiveComplete(c)

\* The reply code obtainPassiveAddress accepts for the command it sent.
passiveCodeOk(net, c) ==
    IF net = "tcp6" THEN c = CodeExtendedPassive ELSE c = CodePassive

\* obtainPassiveAddress once the reply code is accepted: decode the message;
\* an EPSV port is paired with the control connection's remote IP.
passiveAddress(net, m) ==
    IF net = "tcp6"
    THEN LET p == parseEpsvReply(m)
         IN  IF p.err # NoError THEN [addr |-> NilAddr, err |-> p.err]
             ELSE [addr |-> TCPAddr(RemoteIP, p.port), err |-> NoError]
    ELSE parsePasvReply(m)

\* Text (dataType "A") and Binary (dataType "I") enter transfer, which sends TYPE.
\* The caller starts a transfer only while no data connection of its is open.
transfer_call ==
    /\ pc = "idle"
    /\ constructed
    /\ sock # "open"
    /\ \E c \in TransferCommands, t \in {"A", "I"} :
         /\ Begin([name |-> "transfer", command |-> c, dataType |-> t])
         /\ command' = "TYPE " \o t
    /\ conn' = "nil"
    /\ err' = NoError
    /\ sock' = "none"
    /\ sockCloses' = 0
    /\ addr' = NilAddr
    /\ pc' = "sendCommand"
    /\ stack' = <<"transfer_type_ret">>
    /\ UNCHANGED <<network, constructed, Welcome, code, lines, decoderVars, closed>>

\* transfer: TYPE was answered; on a positive completion go on to openPassive and
\* obtainPassiveAddress, which sends EPSV or PASV.
transfer_type_ret ==
    /\ pc = "transfer_type_ret"
    /\ IF ret.err # NoError
       THEN /\ Finish([op |-> "transfer", conn |-> "nil", err |-> ret.err])
            /\ UNCHANGED <<stack, command, ret>>
       ELSE IF ~PositiveComplete(ret.reply.Code)
       THEN /\ Finish([op |-> "transfer", conn |-> "nil", err |-> ReplyError(ret.reply)])
            /\ UNCHANGED <<stack, command, ret>>
       ELSE /\ command' = passiveCommand(network)
            /\ pc' = "sendCommand"
            /\ stack' = <<"obtainPassiveAddress_ret">>
            /\ ret' = NoReturn
            /\ UNCHANGED <<result, log>>
    /\ UNCHANGED <<network, constructed, Welcome, op, code, lines, conn, err, sock,
                   sockCloses, addr, written, decoderVars, closed>>

\* obtainPassiveAddress: the passive command was answered; check the code and
\* decode the address. A failure goes back through openPassive and transfer.
obtainPassiveAddress_ret ==
    /\ pc = "obtainPassiveAddress_ret"
    /\ LET fail(e) == /\ Finish([op |-> "transfer", conn |-> "nil", err |-> e])
                      /\ UNCHANGED <<addr, ret>>
           undecoded(e) ==
                      /\ pc' = "idle"
                      /\ result' = [op |-> "transfer", conn |-> "nil", err |-> e]
                      /\ log' = log \o <<Event("decodeError", e.kind, 0),
                                         Event("return", e.kind, e.code)>>
                      /\ UNCHANGED <<addr, ret>>
           dial(a) == /\ addr' = a
                      /\ pc' = "openPassive_dial"
                      /\ log' = Append(log, Event("decode", "", a.Port))
                      /\ ret' = NoReturn
                      /\ UNCHANGED result
       IN  IF ret.err # NoError THEN fail(ret.err)
           ELSE IF ~passiveCodeOk(network, ret.reply.Code) THEN fail(ReplyError(ret.reply))
           ELSE LET p == passiveAddress(network, ret.reply.Msg)
                IN  IF p.err # NoError THEN undecoded(p.err) ELSE dial(p.addr)
    /\ UNCHANGED <<network, constructed, Welcome, stack, op, command, code, lines,
                   conn, err, sock, sockCloses, written, decoderVars, closed>>

\* openPassive: net.DialTCP to the decoded address; transfer then registers the
\* deferred close and sends the caller's command.
openPassive_dial ==
    /\ pc = "openPassive_dial"
    /\ \/ /\ sock' = "open"
          /\ sockCloses' = 0
          /\ conn' = "TCPConn"
          /\ log' = Append(log, Event("dial", "", addr.Port))
          /\ command' = op.command
          /\ pc' = "sendCommand"
          /\ stack' = <<"transfer_command_ret">>
          /\ UNCHANGED <<result, err>>
       \/ /\ pc' = "idle"
          /\ result' = [op |-> "transfer", conn |-> "nil", err |-> NewError("transport", "dial")]
          /\ log' = log \o <<Event("dialError", "", addr.Port), Event("return", "transport", 0)>>
          /\ UNCHANGED <<sock, sockCloses, conn, command, stack, err>>
    /\ UNCHANGED <<network, constructed, Welcome, op, code, lines, ret, addr, written,
                   decoderVars, closed>>

\* transfer: the caller's command was answered; the return statement sets the
\* named results conn and err.
transfer_command_ret ==
    /\ pc = "transfer_command_ret"
    /\ IF ret.err # NoError
       THEN conn' = "nil" /\ err' = ret.err
       ELSE IF ~Positive(ret.reply.Code)
       THEN conn' = "nil" /\ err' = ReplyError(ret.reply)
       ELSE conn' = "transferConn" /\ err' = NoError
    /\ pc' = "transfer_deferred"
    /\ UNCHANGED <<network, constructed, Welcome, stack, op, command, code, lines, ret,
                   sock, sockCloses, addr, result, written, log, decoderVars, closed>>

\* The deferred function of transfer that never closes.
deferredClosesNever(e) == FALSE

\* The deferred function of transfer closes the dialed socket when err is set.
deferredCloses(e) == e # NoError

\* transfer: the deferred function runs, then transfer returns.
transfer_deferred ==
    /\ pc = "transfer_deferred"
    /\ IF deferredCloses(err)
       THEN /\ sock' = "closed"
            /\ sockCloses' = sockCloses + 1
            /\ pc' = "idle"
            /\ result' = [op |-> "transfer", conn |-> conn, err |-> err]
            /\ log' = log \o <<Event("dataClose", "deferred", 0),
                               Event("return", err.kind, err.code)>>
       ELSE /\ Finish([op |-> "transfer", conn |-> conn, err |-> err])
            /\ UNCHANGED <<sock, sockCloses>>
    /\ UNCHANGED <<network, constructed, Welcome, stack, op, command, code, lines, ret,
                   conn, err, addr, written, decoderVars, closed>>

(* ---- transferConn.Close ---- *)

\* transferConn.Close, called once on a connection transfer returned: close the
\* transport; when that fails return its error, otherwise read the confirmation.
Close_transport ==
    /\ pc = "idle"
    /\ conn = "transferConn"
    /\ sockCloses = 0
    /\ sock' = "closed"
    /\ sockCloses' = sockCloses + 1
    /\ op' = [name |-> "Close", command |-> "", dataType |-> ""]
    /\ written' = <<>>
    /\ ret' = NoReturn
    /\ \/ /\ result' = NoResult
          /\ log' = <<Event("call", "Close", 0), Event("dataClose", "ok", 0)>>
          /\ pc' = "response"
          /\ stack' = <<"Close_ret">>
       \/ /\ result' = [op |-> "Close", conn |-> "nil", err |-> NewError("transport", "close")]
          /\ log' = <<Event("call", "Close", 0), Event("dataClose", "error", 0),
                      Event("return", "transport", 0)>>
          /\ UNCHANGED <<pc, stack>>
    /\ UNCHANGED <<network, constructed, Welcome, command, code, lines, conn, err,
                   addr, decoderVars, closed>>

\* What transferConn.Close returns after the read, the reply's code unchecked.
closeResultUnchecked(r) == r.err

\* What transferConn.Close returns once the confirmation has been read, or not.
closeResult(r) ==
    IF r.err # NoError THEN r.err
    ELSE IF ~PositiveComplete(r.reply.Code) THEN ReplyError(r.reply)
    ELSE NoError

\* transferConn.Close: the read of the confirmation has returned.
Close_ret ==
    /\ pc = "Close_ret"
    /\ Finish([op |-> "Close", conn |-> "nil", err |-> closeResult(ret)])
    /\ UNCHANGED <<network, constructed, Welcome, stack, op, command, code, lines, ret,
                   conn, err, sock, sockCloses, addr, written, decoderVars, closed>>

Next ==
    \/ NewClient_call
    \/ NewClient_ret
    \/ transfer_call
    \/ transfer_type_ret
    \/ obtainPassiveAddress_ret
    \/ openPassive_dial
    \/ transfer_command_ret
    \/ transfer_deferred
    \/ Close_transport
    \/ Close_ret
    \/ sendCommand_write
    \/ response_first
    \/ response_loop

Spec == Init /\ [][Next]_vars

----------------------------------------------------------------------------
(* The decoders on their own: a reply message is composed from bounded pieces
   and obtainPassiveAddress's decoding step is applied to it. *)

RECURSIVE SeqsOf(_, _)
SeqsOf(S, n) ==
    IF n = 0 THEN {<<>>}
    ELSE {Append(q, x) : q \in SeqsOf(S, n - 1), x \in S}

SeqsUpTo(S, lo, hi) == UNION {SeqsOf(S, n) : n \in lo..hi}

\* PASV: text without commas next to the numbers, around a comma-separated list.
PasvNumbers == {"4", "255", "256"}
PasvAround == {<<"", "">>, <<"227 Mode (", ").">>, <<"1,2 ", " 3,4">>}
PasvPieces ==
    {[pre |-> a[1], items |-> q, post |-> a[2]] :
        a \in PasvAround, q \in SeqsUpTo(PasvNumbers, 5, 6 + MaxExtra)}
    \cup {[pre |-> "Entering Passive Mode. ",
           items |-> <<"192", "0", "2", "47", "4", "7">>, post |-> ""]}

\* EPSV: any run of a few delimiters, numbers and other text. The numbers are
\* short, so that a run of them stays within the nine digits Atoi is given.
EpsvTokens == {epsvStart, epsvEnd, "31", "-7", "x", "|"}
EpsvPieces ==
    {[pre |-> "", items |-> q, post |-> ""] : q \in SeqsUpTo(EpsvTokens, 0, MaxTokens)}
    \cup {[pre |-> "Entering Extended Passive Mode. ",
           items |-> <<epsvStart, "1031", epsvEnd>>, post |-> ""]}
    \cup {[pre |-> "", items |-> <<epsvStart, "70000", epsvEnd>>, post |-> ""]}

Compose(p, sep) == p.pre \o Join(p.items, sep) \o p.post

InitDecode ==
    /\ network \in {"tcp", "tcp6"}
    /\ given \in (IF network = "tcp6" THEN EpsvPieces ELSE PasvPieces)
    /\ msg = Compose(given, IF network = "tcp6" THEN "" ELSE ",")
    /\ decoded = NotDecoded
    /\ pc = "decode"
    /\ constructed = TRUE
    /\ Welcome = ZeroReply
    /\ stack = <<>>
    /\ op = NoOp
    /\ command = ""
    /\ code = 0
    /\ lines = <<>>
    /\ ret = NoReturn
    /\ conn = "nil"
    /\ err = NoError
    /\ sock = "none"
    /\ sockCloses = 0
    /\ addr = NilAddr
    /\ result = NoResult
    /\ written = <<>>
    /\ log = <<>>
    /\ closed = FALSE

\* obtainPassiveAddress's decoding of an accepted reply's message.
decode_message ==
    /\ pc = "decode"
    /\ decoded' = passiveAddress(network, msg)
    /\ pc' = "decoded"
    /\ UNCHANGED <<network, constructed, Welcome, stack, op, command, code, lines, ret,
                   conn, err, sock, sockCloses, addr, result, written, log, given, msg,
                   closed>>

NextDecode == decode_message

SpecDecode == InitDecode /\ [][NextDecode]_vars

----------------------------------------------------------------------------
(* The reply reader on its own: response is called once on a control connection
   whose line source holds a given stream of lines and fails when the stream is
   exhausted. Every ReadLine is recorded in log. *)

\* Lines a stream may begin with.
StreamFirstLines ==
    {"201 Hello, World", "123-First line", "200 ok", "200-a", "200-", "500 Error",
     "", "12", "123", "+12 x", "-12-x", "ab1 x", "200x", "007-a", "000 z", "600 x"}

\* Lines a stream may go on with.
StreamNextLines ==
    {"Second line", "  234 A line beginning with numbers", "123 The last line",
     "123-x", "500 e", "200 ok", "007 e"}

\* Lines the message of a rendered Reply is made of.
MessageLines == {"", "a", "200 b", "x 200 y", "200-c", "a\r"}
RenderedCodes == {100, 200, 599}

\* What the line source holds: any first line followed by a few more, or the lines
\* of a rendered Reply, alone or followed by the first line of the next reply.
Streams ==
    {[reply |-> ZeroReply, stream |-> <<first>> \o rest, rendered |-> FALSE, read |-> 0] :
        first \in StreamFirstLines, rest \in SeqsUpTo(StreamNextLines, 0, MaxStream)}
    \cup {[reply |-> ZeroReply, stream |-> <<>>, rendered |-> FALSE, read |-> 0]}
    \cup {[reply |-> Reply(c, Join(q, "\n")),
           stream |-> Split(String(Reply(c, Join(q, "\n"))), "\r\n") \o after,
           rendered |-> TRUE, read |-> 0] :
            c \in RenderedCodes, q \in SeqsUpTo(MessageLines, 1, MaxStream),
            after \in {<<>>, <<"200 ok">>}}

InitStream ==
    /\ given \in Streams
    /\ network = "tcp"
    /\ pc = "response"
    /\ constructed = TRUE
    /\ Welcome = ZeroReply
    /\ stack = <<"response_returned">>
    /\ op = NoOp
    /\ command = ""
    /\ code = 0
    /\ lines = <<>>
    /\ ret = NoReturn
    /\ conn = "nil"
    /\ err = NoError
    /\ sock = "none"
    /\ sockCloses = 0
    /\ addr = NilAddr
    /\ result = NoResult
    /\ written = <<>>
    /\ log = <<>>
    /\ msg = ""
    /\ decoded = NotDecoded
    /\ closed = FALSE

\* response's loop body with every "<digits> " line taken for the terminator.
responseNextAnyCode(c, ls, line) ==
    IF Len(line) >= 4 /\ IsDigits(Slice(line, 0, 3)) /\ Char(line, 4) = " "
    THEN [done |-> TRUE, lines |-> Append(ls, Slice(line, 4, Len(line)))]
    ELSE [done |-> FALSE, lines |-> Append(ls, line)]

\* response's loop body with the terminating line appended whole.
responseNextWholeLine(c, ls, line) ==
    LET endPrefix == Itoa(c) \o " "
    IN  IF HasPrefix(line, endPrefix)
        THEN [done |-> TRUE, lines |-> Append(ls, line)]
        ELSE [done |-> FALSE, lines |-> Append(ls, line)]

\* response's loop body with every further line taken for the terminator.
responseNextFirstLine(c, ls, line) ==
    [done |-> TRUE, lines |-> Append(ls, Slice(line, Min({4, Len(line)}), Len(line)))]

\* response's loop body: what one more line does to the lines collected so far.
responseNext(c, ls, line) ==
    LET endPrefix == Itoa(c) \o " "
    IN  IF HasPrefix(line, endPrefix)
        THEN [done |-> TRUE, lines |-> Append(ls, Slice(line, Len(endPrefix), Len(line)))]
        ELSE [done |-> FALSE, lines |-> Append(ls, line)]

\* Lines response has taken from the source in the operation in progress.
Consumed == Cardinality({i \in DOMAIN log : log[i].ev = "line"})

\* ReadLine fails once the source is exhausted or the connection closed.
SourceFails == closed \/ given.read >= Len(given.stream)
\* The line ReadLine delivers, a source that hands out its first line again.
NextLineFirst == given.stream[1]

\* The line ReadLine delivers: the first one not read yet.
NextLine == given.stream[given.read + 1]

\* response: the first ReadLine, from the stream.
response_stream_first ==
    /\ pc = "response"
    /\ IF SourceFails
       THEN /\ Return([reply |-> ZeroReply, err |-> NewError("transport", "read")])
            /\ log' = log \o <<Event("readError", "", 0), Event("replyError", "transport", 0)>>
            /\ UNCHANGED <<code, lines, given>>
       ELSE LET f == responseFirst(NextLine)
            IN  /\ given' = [given EXCEPT !.read = @ + 1]
                /\ IF f.done
                   THEN /\ Return([reply |-> f.reply, err |-> f.err])
                        /\ log' = log \o <<Event("line", NextLine, 0), ReplyEvent(f)>>
                        /\ UNCHANGED <<code, lines>>
                   ELSE /\ code' = f.code
                        /\ lines' = f.lines
                        /\ pc' = "response_loop"
                        /\ log' = Append(log, Event("line", NextLine, 0))
                        /\ UNCHANGED <<stack, ret>>
    /\ UNCHANGED <<network, constructed, Welcome, op, command, conn, err, sock,
                   sockCloses, addr, result, written, msg, decoded, closed>>

\* response: one turn of the loop, with the next ReadLine from the stream. When
\* the source fails the loop is left with the lines collected so far.
response_stream_loop ==
    /\ pc = "response_loop"
    /\ LET leave(ls, e, ev) ==
               LET r == [reply |-> Reply(code, Join(ls, "\n")), err |-> e]
               IN  /\ Return(r)
                   /\ log' = log \o <<ev, ReplyEvent(r)>>
                   /\ code' = 0
                   /\ lines' = <<>>
       IN  IF SourceFails
           THEN /\ leave(lines, NewError("transport", "read"), Event("readError", "", 0))
                /\ UNCHANGED given
           ELSE LET n == responseNext(code, lines, NextLine)
                IN  /\ given' = [given EXCEPT !.read = @ + 1]
                    /\ IF n.done
                       THEN leave(n.lines, NoError, Event("line", NextLine, 0))
                       ELSE /\ lines' = n.lines
                            /\ log' = Append(log, Event("line", NextLine, 0))
                            /\ UNCHANGED <<pc, stack, ret, code>>
    /\ UNCHANGED <<network, constructed, Welcome, op, command, conn, err, sock,
                   sockCloses, addr, result, written, msg, decoded, closed>>

NextStream ==
    \/ response_stream_first
    \/ response_stream_loop

SpecStream == InitStream /\ [][NextStream]_vars

----------------------------------------------------------------------------
(* A session on a constructed client: Do, Login, Quit and Close are called one
   after another on a control connection whose line source holds a given
   stream of lines. *)

\* Lines the server may have sent.
SessionLines == {"230 in", "331 pw", "500 Error", "221-bye", "221 bye", "12"}

SessionStreams ==
    {[reply |-> ZeroReply, stream |-> q, rendered |-> FALSE, read |-> 0] :
        q \in SeqsUpTo(SessionLines, 0, MaxStream)}

DoCommands == {"NOOP"}
Usernames == {"anonymous"}
Passwords == {"secret"}

InitSession ==
    /\ given \in SessionStreams
    /\ network = "tcp"
    /\ constructed = TRUE
    /\ Welcome = Reply(220, "ready")
    /\ pc = "idle"
    /\ stack = <<>>
    /\ op = NoOp
    /\ command = ""
    /\ code = 0
    /\ lines = <<>>
    /\ ret = NoReturn
    /\ conn = "nil"
    /\ err = NoError
    /\ sock = "none"
    /\ sockCloses = 0
    /\ addr = NilAddr
    /\ result = NoResult
    /\ written = <<>>
    /\ log = <<>>
    /\ msg = ""
    /\ decoded = NotDecoded
    /\ closed = FALSE

sessionVars == <<network, constructed, Welcome, code, lines, conn, err, sock,
                 sockCloses, addr, written, given, msg, decoded>>

(* ---- Do ---- *)

\* Do's result with a reply that is not a positive completion made an error.
doResultChecked(r) ==
    IF r.err = NoError /\ ~PositiveComplete(r.reply.Code)
    THEN [reply |-> ZeroReply, err |-> ReplyError(r.reply)]
    ELSE r

\* Do returns what sendCommand returned.
doResult(r) == r

Do_call ==
    /\ pc = "idle"
    /\ constructed
    /\ \E c \in DoCommands :
         /\ Begin([name |-> "Do", command |-> c])
         /\ command' = c
    /\ pc' = "sendCommand"
    /\ stack' = <<"Do_ret">>
    /\ UNCHANGED <<network, constructed, Welcome, code, lines, conn, err, sock,
                   sockCloses, addr, decoderVars, closed>>

\* Do: sendCommand has returned; ret is what Do hands to its caller.
Do_ret ==
    /\ pc = "Do_ret"
    /\ ret' = doResult(ret)
    /\ Finish([op |-> "Do", conn |-> "nil", err |-> doResult(ret).err])
    /\ UNCHANGED <<stack, op, command, closed, sessionVars>>

(* ---- Login ---- *)

\* Login's verdict on the final reply, any positive reply accepted.
loginResultPositive(reply) ==
    IF ~Positive(reply.Code) THEN ReplyError(reply) ELSE NoError

\* Login's verdict on the final reply.
loginResult(reply) ==
    IF ~PositiveComplete(reply.Code) THEN ReplyError(reply) ELSE NoError

Login_call ==
    /\ pc = "idle"
    /\ constructed
    /\ \E username \in Usernames, password \in Passwords :
         /\ Begin([name |-> "Login", username |-> username, password |-> password])
         /\ command' = "USER " \o username
    /\ pc' = "sendCommand"
    /\ stack' = <<"Login_user_ret">>
    /\ UNCHANGED <<network, constructed, Welcome, code, lines, conn, err, sock,
                   sockCloses, addr, decoderVars, closed>>

\* Login: USER was answered, or not; PASS follows a CodeNeedPassword reply.
Login_user_ret ==
    /\ pc = "Login_user_ret"
    /\ IF ret.err # NoError
       THEN /\ Finish([op |-> "Login", conn |-> "nil", err |-> ret.err])
            /\ UNCHANGED <<stack, command>>
       ELSE IF ret.reply.Code = CodeNeedPassword
       THEN /\ command' = "PASS " \o op.password
            /\ pc' = "sendCommand"
            /\ stack' = <<"Login_pass_ret">>
            /\ UNCHANGED <<result, log>>
       ELSE /\ Finish([op |-> "Login", conn |-> "nil", err |-> loginResult(ret.reply)])
            /\ UNCHANGED <<stack, command>>
    /\ UNCHANGED <<op, ret, closed, sessionVars>>

\* Login: PASS was answered, or not.
Login_pass_ret ==
    /\ pc = "Login_pass_ret"
    /\ IF ret.err # NoError
       THEN Finish([op |-> "Login", conn |-> "nil", err |-> ret.err])
       ELSE Finish([op |-> "Login", conn |-> "nil", err |-> loginResult(ret.reply)])
    /\ UNCHANGED <<stack, op, command, ret, closed, sessionVars>>

(* ---- Quit, Close ---- *)

Quit_call ==
    /\ pc = "idle"
    /\ constructed
    /\ Begin([name |-> "Quit"])
    /\ command' = "QUIT"
    /\ pc' = "sendCommand"
    /\ stack' = <<"Quit_ret">>
    /\ UNCHANGED <<network, constructed, Welcome, code, lines, conn, err, sock,
                   sockCloses, addr, decoderVars, closed>>

\* Quit: when sendCommand failed its error is returned as it is; otherwise
\* Close is called and what client.proto.Close returns is returned.
Quit_ret ==
    /\ pc = "Quit_ret"
    /\ IF ret.err # NoError
       THEN /\ Finish([op |-> "Quit", conn |-> "nil", err |-> ret.err])
            /\ UNCHANGED closed
       ELSE \E e \in {NoError, NewError("transport", "close")} :
            /\ closed' = TRUE
            /\ pc' = "idle"
            /\ result' = [op |-> "Quit", conn |-> "nil", err |-> e]
            /\ log' = log \o <<Event("close", "", 0), Event("return", e.kind, e.code)>>
    /\ UNCHANGED <<stack, op, command, ret, sessionVars>>

\* Close: client.proto.Close is called and its result returned.
Client_Close ==
    /\ pc = "idle"
    /\ constructed
    /\ \E e \in {NoError, NewError("transport", "close")} :
         /\ op' = [name |-> "Client.Close"]
         /\ closed' = TRUE
         /\ ret' = NoReturn
         /\ result' = [op |-> "Client.Close", conn |-> "nil", err |-> e]
         /\ log' = <<Event("call", "Client.Close", 0), Event("close", "", 0),
                     Event("return", e.kind, e.code)>>
    /\ UNCHANGED <<pc, stack, command, sessionVars>>

NextSession ==
    \/ Do_call
    \/ Do_ret
    \/ Login_call
    \/ Login_user_ret
    \/ Login_pass_ret
    \/ Quit_call
    \/ Quit_ret
    \/ Client_Close
    \/ sendCommand_write
    \/ response_stream_first
    \/ response_stream_loop

SpecSession == InitSession /\ [][NextSession]_vars

----------------------------------------------------------------------------
(* response called again and again on one line source, until the source is
   exhausted. decoded keeps what the earlier calls returned. *)

\* Replies as a server sends them, and replies broken in some way.
ReplyBlocks ==
    {<<"200 ok">>, <<"500 Error">>,
     <<"123-First line", "Second line", "123 The last line">>,
     <<"200-a", "500 e", "200 ok">>,
     <<"12">>, <<"ab1 x">>, <<"200-a">>}

RECURSIVE Concat(_)
Concat(qs) == IF Len(qs) = 0 THEN <<>> ELSE Head(qs) \o Concat(Tail(qs))

CallStreams ==
    {[reply |-> ZeroReply, stream |-> Concat(qs), rendered |-> FALSE, read |-> 0] :
        qs \in SeqsUpTo(ReplyBlocks, 0, MaxReplies)}

InitCalls ==
    /\ given \in CallStreams
    /\ decoded = <<>>
    /\ network = "tcp"
    /\ pc = "response"
    /\ constructed = TRUE
    /\ Welcome = ZeroReply
    /\ stack = <<"response_returned">>
    /\ op = NoOp
    /\ command = ""
    /\ code = 0
    /\ lines = <<>>
    /\ ret = NoReturn
    /\ conn = "nil"
    /\ err = NoError
    /\ sock = "none"
    /\ sockCloses = 0
    /\ addr = NilAddr
    /\ result = NoResult
    /\ written = <<>>
    /\ log = <<>>
    /\ msg = ""
    /\ closed = FALSE

\* response is called once more while the source still holds lines.
response_again ==
    /\ pc = "response_returned"
    /\ given.read < Len(given.stream)
    /\ decoded' = Append(decoded, ret)
    /\ ret' = NoReturn
    /\ log' = <<>>
    /\ pc' = "response"
    /\ stack' = <<"response_returned">>
    /\ UNCHANGED <<network, constructed, Welcome, op, command, code, lines, conn, err,
                   sock, sockCloses, addr, result, written, given, msg, closed>>

NextCalls ==
    \/ response_stream_first
    \/ response_stream_loop
    \/ response_again

SpecCalls == InitCalls /\ [][NextCalls]_vars

\* The goroutine that called response keeps running: a step that is possible is
\* eventually taken.
SpecCallsFair == SpecCalls /\ WF_vars(NextCalls)

----------------------------------------------------------------------------
(* Two goroutines call Do on one Client. The Client holds no lock, so the
   steps of their sendCommand calls interleave: each PrintfLine and each
   ReadLine is one step. In these runs pc, op, command, code, lines, ret and
   result hold one value per caller; given is what the server has sent and how
   much of it has been read; log records that two calls have overlapped. The
   server answers every command line it receives, in order. *)

Callers == {"A", "B"}
SharedCommands == {"NOOP", "HELP"}

\* The lines the server answers a command with.
ServerAnswer(c) ==
    IF c = "HELP" THEN <<"214-" \o c, "214 end">> ELSE <<"200 " \o c>>

InitShared ==
    /\ pc = [c \in Callers |-> "idle"]
    /\ op = [c \in Callers |-> NoOp]
    /\ command = [c \in Callers |-> ""]
    /\ code = [c \in Callers |-> 0]
    /\ lines = [c \in Callers |-> <<>>]
    /\ ret = [c \in Callers |-> NoReturn]
    /\ result = [c \in Callers |-> NoReturn]
    /\ given = [reply |-> ZeroReply, stream |-> <<>>, rendered |-> FALSE, read |-> 0]
    /\ written = <<>>
    /\ log = <<>>
    /\ network = "tcp"
    /\ constructed = TRUE
    /\ Welcome = Reply(220, "ready")
    /\ stack = <<>>
    /\ conn = "nil"
    /\ err = NoError
    /\ sock = "none"
    /\ sockCloses = 0
    /\ addr = NilAddr
    /\ msg = ""
    /\ decoded = NotDecoded
    /\ closed = FALSE

sharedFixed == <<network, constructed, Welcome, stack, conn, err, sock, sockCloses,
                 addr, msg, decoded, closed>>

\* Calls in progress that have not put their command on the wire yet.
Unsent == Cardinality({c \in Callers : pc[c] = "sendCommand"})

\* A caller enters Do, and sendCommand; the call overlaps when the other
\* caller's Do has not returned.
Do_shared_call(self) ==
    /\ pc[self] = "idle"
    /\ Len(written) + Unsent < MaxCommands
    /\ \E c \in SharedCommands :
         /\ op' = [op EXCEPT ![self] = [name |-> "Do", command |-> c]]
         /\ command' = [command EXCEPT ![self] = c]
    /\ pc' = [pc EXCEPT ![self] = "sendCommand"]
    /\ ret' = [ret EXCEPT ![self] = NoReturn]
    /\ result' = [result EXCEPT ![self] = NoReturn]
    /\ log' = IF \E other \in Callers \ {self} : pc[other] # "idle"
              THEN <<Event("overlap", "", 0)>> ELSE log
    /\ UNCHANGED <<code, lines, given, written, sharedFixed>>

\* sendCommand: PrintfLine puts the command on the wire, and the server's
\* answer follows the answers to the commands before it; or PrintfLine fails.
sendCommand_shared_write(self) ==
    /\ pc[self] = "sendCommand"
    /\ \/ /\ written' = Append(written, command[self] \o "\r\n")
          /\ given' = [given EXCEPT !.stream = @ \o ServerAnswer(command[self])]
          /\ pc' = [pc EXCEPT ![self] = "response"]
          /\ UNCHANGED ret
       \/ /\ ret' = [ret EXCEPT ![self] =
                        [reply |-> ZeroReply, err |-> NewError("transport", "write")]]
          /\ pc' = [pc EXCEPT ![self] = "Do_ret"]
          /\ UNCHANGED <<written, given>>
    /\ UNCHANGED <<op, command, code, lines, result, log, sharedFixed>>

\* response: the first ReadLine, which waits for a line.
response_shared_first(self) ==
    /\ pc[self] = "response"
    /\ given.read < Len(given.stream)
    /\ given' = [given EXCEPT !.read = @ + 1]
    /\ LET f == responseFirst(NextLine)
       IN  IF f.done
           THEN /\ ret' = [ret EXCEPT ![self] = [reply |-> f.reply, err |-> f.err]]
                /\ pc' = [pc EXCEPT ![self] = "Do_ret"]
                /\ UNCHANGED <<code, lines>>
           ELSE /\ code' = [code EXCEPT ![self] = f.code]
                /\ lines' = [lines EXCEPT ![self] = f.lines]
                /\ pc' = [pc EXCEPT ![self] = "response_loop"]
                /\ UNCHANGED ret
    /\ UNCHANGED <<op, command, result, written, log, sharedFixed>>

\* response: one turn of the loop, whose ReadLine waits for a line.
response_shared_loop(self) ==
    /\ pc[self] = "response_loop"
    /\ given.read < Len(given.stream)
    /\ given' = [given EXCEPT !.read = @ + 1]
    /\ LET n == responseNext(code[self], lines[self], NextLine)
       IN  IF n.done
           THEN /\ ret' = [ret EXCEPT ![self] =
                             [reply |-> Reply(code[self], Join(n.lines, "\n")),
                              err |-> NoError]]
                /\ pc' = [pc EXCEPT ![self] = "Do_ret"]
                /\ code' = [code EXCEPT ![self] = 0]
                /\ lines' = [lines EXCEPT ![self] = <<>>]
           ELSE /\ lines' = [lines EXCEPT ![self] = n.lines]
                /\ UNCHANGED <<pc, ret, code>>
    /\ UNCHANGED <<op, command, result, written, log, sharedFixed>>

\* Do hands sendCommand's result to its caller.
Do_shared_ret(self) ==
    /\ pc[self] = "Do_ret"
    /\ result' = [result EXCEPT ![self] = doResult(ret[self])]
    /\ pc' = [pc EXCEPT ![self] = "idle"]
    /\ UNCHANGED <<op, command, code, lines, ret, given, written, log, sharedFixed>>

NextShared ==
    \E self \in Callers :
        \/ Do_shared_call(self)
        \/ sendCommand_shared_write(self)
        \/ response_shared_first(self)
        \/ response_shared_loop(self)
        \/ Do_shared_ret(self)

SpecShared == InitShared /\ [][NextShared]_vars

----------------------------------------------------------------------------
(* One caller and a server that keeps to the protocol: it sends a greeting, one
   reply for every command line it receives, and after each transfer it has
   accepted one confirmation. The caller makes its calls one after another and
   calls Close on a data connection before its next command. given.stream is
   what the server has sent that is still of interest, given.read how much of
   it has been read. The control connection itself does not fail to deliver. *)

\* The replies the server may give a command line. An accepted transfer is
\* answered with 150 and, the transfer over, confirmed with 226 or 426.
AnswersTo(c) ==
    IF HasPrefix(c, "TYPE ") THEN {<<"200 ok">>}
    ELSE IF c = "PASV" THEN {<<"227 1,2,3,4,4,7">>, <<"500 e">>}
    ELSE IF c = "EPSV" THEN {<<"229 (|||1031|)">>, <<"500 e">>}
    ELSE IF HasPrefix(c, "USER ") THEN {<<"331 pw">>, <<"230 in">>}
    ELSE IF HasPrefix(c, "PASS ") THEN {<<"230 in">>, <<"530 no">>}
    ELSE IF c \in TransferCommands
    THEN {<<"150 go", "226 done">>, <<"150 go", "426 ab">>, <<"550 no">>}
    ELSE {<<"200 ok">>, <<"200-a", "200 ok">>}

InitSync ==
    /\ given = [reply |-> ZeroReply, stream |-> <<"220 ready">>, rendered |-> FALSE,
                read |-> 0]
    /\ network \in {"tcp", "tcp6"}
    /\ constructed = FALSE
    /\ Welcome = ZeroReply
    /\ pc = "idle"
    /\ stack = <<>>
    /\ op = NoOp
    /\ command = ""
    /\ code = 0
    /\ lines = <<>>
    /\ ret = NoReturn
    /\ conn = "nil"
    /\ err = NoError
    /\ sock = "none"
    /\ sockCloses = 0
    /\ addr = NilAddr
    /\ result = NoResult
    /\ written = <<>>
    /\ log = <<>>
    /\ msg = ""
    /\ decoded = NotDecoded
    /\ closed = FALSE

LastOf(ev) == IF At(ev) = {} THEN 0 ELSE Max(At(ev))

\* The command line written last has not been answered yet.
Unanswered == LastOf("write") > LastOf("answer")
Unread == Len(given.stream) - given.read

\* The server answers the command line it has received; lines read long ago
\* are dropped from the record.
server_answer ==
    /\ Unanswered
    /\ Unread <= MaxUnread
    /\ \E answer \in AnswersTo(log[LastOf("write")].s) :
         given' = [given EXCEPT
                      !.stream = SubSeq(given.stream, given.read + 1, Len(given.stream))
                                 \o answer,
                      !.read = 0]
    /\ log' = Append(log, Event("answer", log[LastOf("write")].s, 0))
    /\ UNCHANGED <<network, constructed, Welcome, pc, stack, op, command, code, lines,
                   ret, conn, err, sock, sockCloses, addr, result, written, msg,
                   decoded, closed>>

\* ReadLine waits for the server's line.
response_sync_first ==
    /\ ~Unanswered
    /\ Unread > 0
    /\ response_stream_first

response_sync_loop ==
    /\ Unread > 0
    /\ response_stream_loop

\* Do and Login, called while no data connection is open.
Do_sync_call == sock # "open" /\ Do_call
Login_sync_call == sock # "open" /\ Login_call

NextSync ==
    \/ NewClient_call
    \/ NewClient_ret
    \/ Do_sync_call
    \/ Do_ret
    \/ Login_sync_call
    \/ Login_user_ret
    \/ Login_pass_ret
    \/ transfer_call
    \/ transfer_type_ret
    \/ obtainPassiveAddress_ret
    \/ openPassive_dial
    \/ transfer_command_ret
    \/ transfer_deferred
    \/ Close_transport
    \/ Close_ret
    \/ sendCommand_write
    \/ server_answer
    \/ response_sync_first
    \/ response_sync_loop

SpecSync == InitSync /\ [][NextSync]_vars

----------------------------------------------------------------------------
(* The predicates of Code on their own, applied to every code of up to three
   digits. *)

Codes == 0..999

InitCode ==
    /\ code \in Codes
    /\ pc = "classify"
    /\ decoded = NotDecoded
    /\ network = "tcp"
    /\ constructed = FALSE
    /\ Welcome = ZeroReply
    /\ stack = <<>>
    /\ op = NoOp
    /\ command = ""
    /\ lines = <<>>
    /\ ret = NoReturn
    /\ conn = "nil"
    /\ err = NoError
    /\ sock = "none"
    /\ sockCloses = 0
    /\ addr = NilAddr
    /\ result = NoResult
    /\ written = <<>>
    /\ log = <<>>
    /\ given = NoPieces
    /\ msg = ""
    /\ closed = FALSE

\* The five predicates are called on the code.
classify_code ==
    /\ pc = "classify"
    /\ decoded' = [Preliminary      |-> Preliminary(code),
                   Positive         |-> Positive(code),
                   Complete         |-> Complete(code),
                   PositiveComplete |-> PositiveComplete(code),
                   Temporary        |-> Temporary(code)]
    /\ pc' = "classified"
    /\ UNCHANGED <<network, constructed, Welcome, stack, op, command, code, lines, ret,
                   conn, err, sock, sockCloses, addr, result, written, log, given, msg,
                   closed>>

NextCode == classify_code

SpecCode == InitCode /\ [][NextCode]_vars

----------------------------------------------------------------------------
(* Properties of transfer and transferConn.Close, over the events of the
   operation in progress. *)

Returned(name) == pc = "idle" /\ result.op = name
ExpectedPassiveLine == IF network = "tcp6" THEN "EPSV\r\n" ELSE "PASV\r\n"
ExpectedPassiveCode == IF network = "tcp6" THEN 229 ELSE 227

\* C1: when transfer has dialed the data connection and returns an error, the
\* data socket has been closed exactly once, before the return; when it returns
\* a connection, transfer has not closed the socket.
C1_TransferCleanup ==
    (Returned("transfer") /\ Happened("dial")) =>
        IF result.err # NoError
        THEN /\ result.conn = "nil"
             /\ sock = "closed"
             /\ sockCloses = 1
             /\ Cardinality(At("dataClose")) = 1
             /\ \A c \in At("dataClose"), r \in At("return") : c < r
        ELSE /\ result.conn = "transferConn"
             /\ sock = "open"
             /\ sockCloses = 0
             /\ ~Happened("dataClose")

\* C1 witness: the transfer command was refused after a successful dial and the
\* socket is closed.
C1_Witness ==
    /\ Returned("transfer")
    /\ Happened("dial")
    /\ result.err.kind = "Reply"
    /\ result.err.code = 426
    /\ sock = "closed"

\* C2: every Close of a returned data connection closes the transport and then
\* reads exactly one reply from the control channel, whether or not the
\* transport's close succeeded.
C2_CloseAlwaysReads ==
    Returned("Close") =>
        /\ Cardinality(At("dataClose")) = 1
        /\ Cardinality(At("reply") \cup At("replyError")) = 1
        /\ \A c \in At("dataClose"), r \in At("reply") \cup At("replyError") : c < r

\* C3: Close returns the transport's close error when there is one, else the
\* error of reading the confirmation, else the confirmation itself when its code
\* is not 2yz, else nil; and it writes nothing.
C3_CloseResult ==
    Returned("Close") =>
        /\ written = <<>>
        /\ ~Happened("write") /\ ~Happened("writeError")
        /\ IF \E c \in At("dataClose") : log[c].s = "error"
           THEN result.err = NewError("transport", "close")
           ELSE IF ret.err # NoError THEN result.err = ret.err
           ELSE IF ret.reply.Code \div 100 # 2
           THEN result.err = [kind |-> "Reply", code |-> ret.reply.Code,
                              msg |-> ret.reply.Msg]
           ELSE result.err = NoError

\* C3 witness: the transport closed and the confirmation was a 426.
C3_Witness ==
    /\ Returned("Close")
    /\ \E c \in At("dataClose") : log[c].s = "ok"
    /\ result.err = [kind |-> "Reply", code |-> 426, msg |-> "ab"]

\* The k-th line written by the operation in progress is log[WriteAt(k)].
WriteAt(k) == CHOOSE i \in At("write") : Cardinality({j \in At("write") : j <= i}) = k

\* C4: transfer writes a prefix of TYPE <type>, PASV or EPSV, <command>, each
\* once and in that order; each line follows an accepted reply to the line
\* before it; the dial comes after the decoding of the passive reply and before
\* the command is written; a connection is returned only after three replies.
C4_TransferOrder ==
    op.name = "transfer" =>
        /\ Len(written) <= 3
        /\ Cardinality(At("write")) = Len(written)
        /\ Len(written) >= 1 => written[1] = "TYPE " \o op.dataType \o "\r\n"
        /\ Len(written) >= 2 => written[2] \in {"PASV\r\n", "EPSV\r\n"}
        /\ Len(written) >= 3 => written[3] = op.command \o "\r\n"
        /\ \A k \in 2..Len(written) :
               \E j \in At("reply") :
                   /\ WriteAt(k - 1) < j /\ j < WriteAt(k)
                   /\ j = WriteAt(k - 1) + 1
                   /\ k = 2 => log[j].n \div 100 = 2
                   /\ k = 3 => log[j].n = ExpectedPassiveCode
        /\ \A d \in At("dial") \cup At("dialError") :
               /\ Len(written) >= 2
               /\ \E j \in At("decode") : WriteAt(2) < j /\ j < d
               /\ Len(written) = 3 => d < WriteAt(3)
        /\ Len(written) = 3 => Happened("dial")
        /\ result.conn = "transferConn" =>
               /\ Cardinality(At("reply")) = 3
               /\ Len(written) = 3
               /\ \A r \in At("reply"), e \in At("return") : r < e

\* C4 witness: transfer has returned a wrapped data connection.
C4_Witness ==
    /\ Returned("transfer")
    /\ result.conn = "transferConn"
    /\ Len(written) = 3

TypeRejected ==
    /\ Len(log) >= 3
    /\ log[3].ev = "reply"
    /\ log[3].n \div 100 # 2

\* The passive command's reply, when read, is the fifth event: call, write,
\* reply, write, reply.
PassiveReplied == Len(log) >= 5
PassiveReply == log[5]

\* C5: when TYPE is refused, passive negotiation fails or the dial fails,
\* transfer returns that failure, the caller's command is never written and no
\* data socket is open; a refused TYPE is followed by no PASV/EPSV and no dial.
C5_EarlyFailure ==
    (Returned("transfer") /\ ~Happened("dial")) =>
        /\ result.conn = "nil"
        /\ result.err # NoError
        /\ sock = "none"
        /\ sockCloses = 0
        /\ Len(written) <= 2
        /\ \A i \in DOMAIN written : written[i] # op.command \o "\r\n"
        /\ TypeRejected =>
               /\ written = <<"TYPE " \o op.dataType \o "\r\n">>
               /\ ~Happened("dialError") /\ ~Happened("decode") /\ ~Happened("decodeError")
               /\ result.err = [kind |-> "Reply", code |-> ret.reply.Code,
                                msg |-> ret.reply.Msg]
               /\ result.err.code = log[3].n
        /\ (PassiveReplied /\ PassiveReply.ev = "replyError") =>
               result.err = ret.err
        /\ (PassiveReplied /\ PassiveReply.ev = "reply"
               /\ PassiveReply.n # ExpectedPassiveCode) =>
               /\ result.err = [kind |-> "Reply", code |-> ret.reply.Code,
                                msg |-> ret.reply.Msg]
               /\ result.err.code = PassiveReply.n
        /\ Happened("decodeError") => result.err.kind \in {"errors", "strconv"}
        /\ Happened("dialError") => result.err = NewError("transport", "dial")

\* C5 witness: the passive address was decoded and the dial failed.
C5_Witness ==
    /\ Returned("transfer")
    /\ Happened("dialError")
    /\ Len(written) = 2

\* C6: once TYPE and the passive negotiation succeeded and the command's reply
\* was read, transfer returns a connection iff the reply's first digit is 1, 2
\* or 3; a 4yz or 5yz reply is returned, code and message, as the error.
C6_PositiveReply ==
    (Returned("transfer") /\ Happened("dial") /\ ret.err = NoError) =>
        /\ (result.conn = "transferConn" /\ result.err = NoError)
               <=> ret.reply.Code \div 100 \in {1, 2, 3}
        /\ ret.reply.Code \div 100 \in {4, 5} =>
               /\ result.conn = "nil"
               /\ result.err = [kind |-> "Reply", code |-> ret.reply.Code,
                                msg |-> ret.reply.Msg]

\* C6 witness: a 150 reply, positive but not complete, yields the connection.
C6_Witness ==
    /\ Returned("transfer")
    /\ Happened("dial")
    /\ ret = [reply |-> Reply(150, "go"), err |-> NoError]
    /\ result.conn = "transferConn"

\* C7: obtainPassiveAddress writes one command, EPSV when the remote network is
\* tcp6 and PASV otherwise; it decodes only a 229 (EPSV) or 227 (PASV) reply and
\* returns any other reply as the error without decoding.
C7_PassiveCommand ==
    op.name = "transfer" =>
        /\ Len(written) >= 2 => written[2] = ExpectedPassiveLine
        /\ Cardinality({i \in DOMAIN written :
                           written[i] \in {"PASV\r\n", "EPSV\r\n"}})
               = (IF Len(written) >= 2 THEN 1 ELSE 0)
        /\ (PassiveReplied /\ PassiveReply.ev \in {"reply", "replyError"}) =>
               Len(written) >= 2
        /\ (Happened("decode") \/ Happened("decodeError")) =>
               /\ PassiveReply.ev = "reply"
               /\ PassiveReply.n = ExpectedPassiveCode
        /\ (Returned("transfer") /\ PassiveReplied
               /\ PassiveReply.ev = "reply"
               /\ PassiveReply.n # ExpectedPassiveCode) =>
               /\ ~Happened("decode") /\ ~Happened("decodeError")
               /\ ~Happened("dial") /\ ~Happened("dialError")
               /\ result.conn = "nil"
               /\ result.err = [kind |-> "Reply", code |-> PassiveReply.n,
                                msg |-> ret.reply.Msg]

\* C7 witness: EPSV was answered 200, a positive code that is not 229.
C7_Witness ==
    /\ Returned("transfer")
    /\ network = "tcp6"
    /\ Len(written) = 2
    /\ written[2] = "EPSV\r\n"
    /\ PassiveReplied
    /\ PassiveReply = Event("reply", "", 200)
    /\ result.err = [kind |-> "Reply", code |-> 200, msg |-> "ok"]

----------------------------------------------------------------------------
(* Properties of the decoders, over the pieces the message was composed of. *)

\* The value of each number a composed PASV message may carry.
PasvNumber(s) ==
    CASE s = "0" -> 0 [] s = "2" -> 2 [] s = "4" -> 4 [] s = "7" -> 7
      [] s = "47" -> 47 [] s = "192" -> 192 [] s = "255" -> 255 [] s = "256" -> 256

\* Where, in the comma-separated list, six consecutive numbers in 0..255 begin.
InRangeGroups ==
    {k \in 1..(Len(given.items) - 5) :
        \A i \in k..(k + 5) : PasvNumber(given.items[i]) \in 0..255}

PasvDecoded == pc = "decoded" /\ network = "tcp"
EpsvDecoded == pc = "decoded" /\ network = "tcp6"

GroupAddress(k) ==
    LET n(i) == PasvNumber(given.items[k + i - 1])
    IN  TCPAddr(<<n(1), n(2), n(3), n(4)>>, n(5) * 256 + n(6))

NoPortError(text) == [addr |-> NilAddr, err |-> NewError("errors", text)]

C9_MalformedRefused ==
    (PasvDecoded /\ InRangeGroups = {}) =>
        decoded = NoPortError("PASV reply provided no port")

\* The part of C9 the code keeps: fewer than six numbers are refused.
C9_TooFewRefused ==
    (PasvDecoded /\ Len(given.items) < 6) =>
        decoded = NoPortError("PASV reply provided no port")

Occurrences(sub) ==
    {i \in 0..(Len(msg) - Len(sub)) : SubSeq(msg, i + 1, i + Len(sub)) = sub}

\* An optional sign and one or more digits.
IsDecimalInteger(text) ==
    LET body == IF Len(text) > 0 /\ SubSeq(text, 1, 1) \in {"+", "-"}
                THEN SubSeq(text, 2, Len(text)) ELSE text
    IN  Len(body) > 0 /\ \A i \in 1..Len(body) : SubSeq(body, i, i) \in Digits

IntegerValue(text) ==
    IF SubSeq(text, 1, 1) = "-" THEN 0 - DecimalValue(SubSeq(text, 2, Len(text)))
    ELSE IF SubSeq(text, 1, 1) = "+" THEN DecimalValue(SubSeq(text, 2, Len(text)))
    ELSE DecimalValue(text)

\* C10: the EPSV port is the decimal integer between the last "(|||" and the
\* last "|)" after it, and the host is the control connection's remote IP;
\* there is an error and no address when "(|||" is absent, when no "|)" follows
\* the last "(|||", when nothing stands between them or when what stands there
\* is no decimal integer.
C10_EpsvPort ==
    EpsvDecoded =>
        LET starts == Occurrences("(|||")
            from == Max(starts) + 4
            ends == {e \in Occurrences("|)") : e >= from}
            text == SubSeq(msg, from + 1, Max(ends))
        IN  IF starts = {} \/ ends = {}
            THEN decoded = NoPortError("EPSV reply provided no port")
            ELSE IF text = ""
            THEN decoded = NoPortError("EPSV reply provided no port")
            ELSE IF ~IsDecimalInteger(text)
            THEN decoded.err # NoError /\ decoded.addr = NilAddr
            ELSE decoded = [addr |-> [IP |-> RemoteIP, Port |-> IntegerValue(text)],
                            err |-> NoError]

\* C10 witness: the documented example has been decoded.
C10_Witness ==
    /\ EpsvDecoded
    /\ msg = "Entering Extended Passive Mode. (|||1031|)"
    /\ decoded = [addr |-> [IP |-> <<198, 51, 100, 9>>, Port |-> 1031], err |-> NoError]

----------------------------------------------------------------------------
(* Properties of the reply reader, over the stream it was given. *)

StreamReturned == pc = "response_returned"
FirstLine == given.stream[1]
HasFirstLine == Len(given.stream) >= 1

\* The first line begins with a three-digit code and the character ch.
CodedFirstLine(ch) ==
    /\ HasFirstLine
    /\ Len(FirstLine) >= 4
    /\ IsDigits(Slice(FirstLine, 0, 3))
    /\ DecimalValue(Slice(FirstLine, 0, 3)) >= 100
    /\ Char(FirstLine, 4) = ch

FirstCode == DecimalValue(Slice(FirstLine, 0, 3))
AfterPrefix(line) == Slice(line, 4, Len(line))

\* Positions in the stream, after the first line, of the lines that begin with
\* the first line's three digits and a space.
TerminatorsOf(prefix) == {k \in 2..Len(given.stream) : HasPrefix(given.stream[k], prefix)}

\* C11: a first line "ddd " + m gives {ddd, m} after that one line; a first line
\* "ddd-" + m0, lines l1..lk not starting with "ddd " and a line "ddd " + mt give
\* {ddd, m0 \n l1 \n ... \n lk \n mt}.
C11_ReplyFraming ==
    StreamReturned =>
        /\ CodedFirstLine(" ") =>
             /\ ret = [reply |-> Reply(FirstCode, AfterPrefix(FirstLine)), err |-> NoError]
             /\ Consumed = 1
        /\ CodedFirstLine("-") =>
             LET T == TerminatorsOf(Slice(FirstLine, 0, 3) \o " ")
             IN  T # {} =>
                   LET t == Min(T)
                   IN  ret = [reply |-> Reply(FirstCode,
                                  Join(<<AfterPrefix(FirstLine)>>
                                       \o SubSeq(given.stream, 2, t - 1)
                                       \o <<AfterPrefix(given.stream[t])>>, "\n")),
                              err |-> NoError]

C11_Witness ==
    /\ StreamReturned
    /\ given.stream = <<"123-First line", "Second line",
                        "  234 A line beginning with numbers", "123 The last line">>
    /\ ret.reply = Reply(123,
           "First line\nSecond line\n  234 A line beginning with numbers\nThe last line")
    /\ ret.err = NoError

\* The reader is inside, or has left, a multi-line reply.
InMultiLine ==
    /\ pc \in {"response_loop", "response_returned"}
    /\ HasFirstLine
    /\ ~responseFirst(FirstLine).done

\* C12: inside a multi-line reply with code c, a line that does not begin with
\* "<c> " never ends the reply and is appended as it is; the first line that
\* begins with "<c> " ends it, and the lines after it are left unread.
C12_OnlyOwnCodeTerminates ==
    /\ (InMultiLine /\ pc = "response_loop") =>
          /\ Len(lines) = Consumed
          /\ \A k \in 2..Consumed :
               /\ ~HasPrefix(given.stream[k], CodeString(code) \o " ")
               /\ lines[k] = given.stream[k]
    /\ (InMultiLine /\ StreamReturned) =>
          LET T == TerminatorsOf(CodeString(ret.reply.Code) \o " ")
          IN  IF T = {}
              THEN /\ ret.err # NoError
                   /\ Consumed = Len(given.stream)
                   /\ ret.reply.Msg = Join(<<AfterPrefix(FirstLine)>>
                                           \o SubSeq(given.stream, 2, Consumed), "\n")
              ELSE /\ ret.err = NoError
                   /\ Consumed = Min(T)
                   /\ given.read = Min(T)
                   /\ ret.reply.Msg = Join(<<AfterPrefix(FirstLine)>>
                                           \o SubSeq(given.stream, 2, Min(T) - 1)
                                           \o <<AfterPrefix(given.stream[Min(T)])>>, "\n")

C12_Witness ==
    /\ StreamReturned
    /\ given.stream = <<"200-a", "500 e", "200 ok", "123 The last line">>
    /\ ret = [reply |-> Reply(200, "a\n500 e\nok"), err |-> NoError]
    /\ Consumed = 3

\* C13: a first line of fewer than 4 characters gives the short-line error and
\* the zero Reply, and is the only line consumed.
C13_ShortLineRejected ==
    (StreamReturned /\ HasFirstLine /\ Len(FirstLine) < 4) =>
        /\ ret = [reply |-> ZeroReply,
                  err |-> NewError("errors", "Short response line in FTP")]
        /\ log = <<Event("line", FirstLine, 0), Event("replyError", "errors", 0)>>

C13_Witness ==
    /\ StreamReturned
    /\ given.stream = <<"123", "123 The last line">>
    /\ ret.err.msg = "Short response line in FTP"
    /\ Consumed = 1

\* C14: a first line of at least 4 characters whose first three characters are
\* not all decimal digits gives an error and no Reply.
C14_NonDigitPrefixRejected ==
    (StreamReturned /\ HasFirstLine /\ Len(FirstLine) >= 4
        /\ ~IsDigits(Slice(FirstLine, 0, 3))) =>
        /\ ret.err # NoError
        /\ ret.reply = ZeroReply

\* C15: when the line source fails inside a multi-line reply the failure is
\* returned, the Reply beside it carries no message, and no partial Reply is
\* returned without an error.
C15_PartialDiscarded ==
    (StreamReturned /\ InMultiLine
        /\ TerminatorsOf(CodeString(ret.reply.Code) \o " ") = {}) =>
        /\ ret.err = NewError("transport", "read")
        /\ ret.reply.Msg = ""

\* The part of C15 that response keeps: the failure is what is returned.
C15_FailureReturned ==
    (StreamReturned /\ InMultiLine
        /\ TerminatorsOf(CodeString(ret.reply.Code) \o " ") = {}) =>
        ret.err = NewError("transport", "read")

\* No line of the message holds the reply's own code followed by a space.
OwnCodeFree(r) ==
    \A l \in {Split(r.Msg, "\n")[i] : i \in 1..Len(Split(r.Msg, "\n"))} :
        ~Contains(l, CodeString(r.Code) \o " ")

\* C16: a Reply whose message lines hold no "<code> " is read back, equal, from
\* the lines of its rendering, and exactly those lines are consumed.
C16_RoundTrip ==
    (StreamReturned /\ given.rendered /\ OwnCodeFree(given.reply)) =>
        /\ ret = [reply |-> given.reply, err |-> NoError]
        /\ Consumed = Len(Split(String(given.reply), "\r\n"))

C16_Witness ==
    /\ StreamReturned
    /\ given.rendered
    /\ given.reply = Reply(200, "a\n\n200-c")
    /\ given.stream = <<"200-a", "", "200 200-c", "200 ok">>
    /\ ret.reply = given.reply
    /\ Consumed = 3

----------------------------------------------------------------------------
(* Properties of the predicates of Code. *)

\* The hundreds digit of a three-digit code, read off its decimal text.
HundredsDigit(c) == DigitVal(Char(CodeString(c), 1))

\* C19: for every code in [100,599] the predicates depend only on the hundreds
\* digit d: Preliminary iff d=1, Positive iff d in {1,2,3}, Complete iff d in
\* {2,4,5}, PositiveComplete iff d=2, Temporary iff d=4; so PositiveComplete iff
\* Positive and Complete, every code is Positive or Complete, and Temporary
\* implies Complete and not Positive.
C19_Classification ==
    (pc = "classified" /\ code >= 100 /\ code <= 599) =>
        LET d == HundredsDigit(code)
        IN  /\ decoded.Preliminary <=> d = 1
            /\ decoded.Positive <=> d \in {1, 2, 3}
            /\ decoded.Complete <=> d \in {2, 4, 5}
            /\ decoded.PositiveComplete <=> d = 2
            /\ decoded.Temporary <=> d = 4
            /\ decoded.PositiveComplete <=> (decoded.Positive /\ decoded.Complete)
            /\ decoded.Positive \/ decoded.Complete
            /\ decoded.Temporary => (decoded.Complete /\ ~decoded.Positive)

C19_Witness ==
    /\ pc = "classified"
    /\ code = 426
    /\ decoded.Temporary
    /\ decoded.Complete
    /\ ~decoded.Positive
    /\ ~decoded.Preliminary

----------------------------------------------------------------------------
(* Properties of Do, Login and Quit, over the events of the operation and the
   stream the server sent. *)

\* Where in the stream the operation in progress began to read.
ReadStart == given.read - Consumed

\* A reply of the stream that begins at line k with a three-digit code and is
\* complete: one line "ddd text", or "ddd-text" up to the first "ddd text".
CodeAt(k) == DecimalValue(Slice(given.stream[k], 0, 3))
EndsAfter(k) ==
    {j \in (k + 1)..Len(given.stream) :
        HasPrefix(given.stream[j], Slice(given.stream[k], 0, 3) \o " ")}
WellFormedAt(k) ==
    /\ k \in 1..Len(given.stream)
    /\ Len(given.stream[k]) >= 4
    /\ IsDigits(Slice(given.stream[k], 0, 3))
    /\ CodeAt(k) >= 100
    /\ \/ Char(given.stream[k], 4) = " "
       \/ Char(given.stream[k], 4) = "-" /\ EndsAfter(k) # {}
EndAt(k) == IF Char(given.stream[k], 4) = " " THEN k ELSE Min(EndsAfter(k))
ReplyAt(k) ==
    IF Char(given.stream[k], 4) = " "
    THEN Reply(CodeAt(k), AfterPrefix(given.stream[k]))
    ELSE Reply(CodeAt(k), Join(<<AfterPrefix(given.stream[k])>>
                               \o SubSeq(given.stream, k + 1, EndAt(k) - 1)
                               \o <<AfterPrefix(given.stream[EndAt(k)])>>, "\n"))

WriteAttempts == At("write") \cup At("writeError")
RepliesRead == At("reply") \cup At("replyError")

\* C17: Do writes the command and CRLF once, reads one reply and returns it with
\* a nil error whatever its code; when the write fails nothing is read and the
\* zero Reply is returned with the write error.
C17_Do ==
    Returned("Do") =>
        /\ WriteAttempts = {2}
        /\ log[2].s = op.command
        /\ IF Happened("writeError")
           THEN /\ written = <<>>
                /\ Consumed = 0
                /\ RepliesRead = {}
                /\ ~Happened("readError")
                /\ ret = [reply |-> ZeroReply, err |-> NewError("transport", "write")]
                /\ result.err = NewError("transport", "write")
           ELSE /\ written = <<op.command \o "\r\n">>
                /\ Cardinality(RepliesRead) = 1
                /\ result.err = ret.err
                /\ result.err.kind # "Reply"
                /\ WellFormedAt(ReadStart + 1) =>
                     /\ ret = [reply |-> ReplyAt(ReadStart + 1), err |-> NoError]
                     /\ given.read = EndAt(ReadStart + 1)

C17_Witness ==
    /\ Returned("Do")
    /\ written = <<"NOOP\r\n">>
    /\ given.stream[given.read] = "500 Error"
    /\ ret = [reply |-> Reply(500, "Error"), err |-> NoError]
    /\ result.err = NoError

\* C18: Login writes "USER <name>" first, writes "PASS <password>" if and only
\* if the USER reply's code is 331, and writes nothing else; when no write or
\* read failed it returns nil if and only if the final reply is a positive
\* completion, and that Reply as the error otherwise.
C18_Login ==
    Returned("Login") =>
        LET user == "USER " \o op.username
            pass == "PASS " \o op.password
            passSent == Cardinality(WriteAttempts) = 2
        IN  /\ 2 \in WriteAttempts
            /\ log[2].s = user
            /\ Cardinality(WriteAttempts) <= 2
            /\ \A i \in WriteAttempts : i = 2 \/ log[i].s = pass
            /\ written \in {<<>>, <<user \o "\r\n">>,
                            <<user \o "\r\n", pass \o "\r\n">>}
            /\ Len(written) = Cardinality(At("write"))
            /\ passSent <=> (At("reply") # {} /\ log[Min(At("reply"))].n = 331)
            /\ (log[2].ev = "write" /\ WellFormedAt(ReadStart + 1)) =>
                 (passSent <=> ReplyAt(ReadStart + 1).Code = 331)
            /\ (~Happened("writeError") /\ ~Happened("replyError")) =>
                 LET final == log[Max(At("reply"))].n
                     k == IF passSent THEN EndAt(ReadStart + 1) + 1 ELSE ReadStart + 1
                 IN  /\ ret.reply.Code = final
                     /\ result.err = NoError <=> (final >= 200 /\ final <= 299)
                     /\ result.err # NoError => result.err = ReplyError(ret.reply)
                     /\ (WellFormedAt(ReadStart + 1) /\ WellFormedAt(k)) =>
                          ret.reply = ReplyAt(k)

C18_Witness ==
    /\ Returned("Login")
    /\ written = <<"USER anonymous\r\n", "PASS secret\r\n">>
    /\ given.stream = <<"331 pw", "230 in">>
    /\ result.err = NoError

\* C20: on every return of Quit the control connection has been closed, and
\* "QUIT" was written before the close.
C20_QuitCloses ==
    Returned("Quit") =>
        /\ closed
        /\ Happened("close")
        /\ \A c \in At("close") : \E w \in At("write") : w < c /\ log[w].s = "QUIT"

\* What Quit does keep: once QUIT has been written and answered, the connection
\* is closed, after the write.
C20_QuitClosesAfterReply ==
    (Returned("Quit") /\ ~Happened("writeError") /\ ~Happened("replyError")) =>
        /\ closed
        /\ Cardinality(At("close")) = 1
        /\ written = <<"QUIT\r\n">>
        /\ \A c \in At("close") : \E w \in At("write") : w < c /\ log[w].s = "QUIT"

----------------------------------------------------------------------------
(* Properties of the values the reader and the decoders hand out. *)

\* C23: every Reply that response returns without an error has a code in
\* [100,599], whatever the first line was.
C23_CodeInRange ==
    (StreamReturned /\ ret.err = NoError) =>
        (ret.reply.Code >= 100 /\ ret.reply.Code <= 599)

\* What response does keep: a Reply returned without an error carries the value
\* Atoi gives the first line's first three characters.
C23_CodeIsPrefixValue ==
    (StreamReturned /\ ret.err = NoError) =>
        ret.reply.Code = Atoi(Slice(FirstLine, 0, 3)).n

C24_PasvPortInRange ==
    (PasvDecoded /\ decoded.err = NoError) =>
        (decoded.addr.Port >= 0 /\ decoded.addr.Port <= 65535)

----------------------------------------------------------------------------
(* Properties of successive calls of response on one stream. *)

\* The stream from line k on is made of well-formed replies only.
RECURSIVE AllWellFormedFrom(_)
AllWellFormedFrom(k) ==
    k > Len(given.stream) \/ (WellFormedAt(k) /\ AllWellFormedFrom(EndAt(k) + 1))

\* The replies of such a stream, in order.
RECURSIVE RepliesFrom(_)
RepliesFrom(k) ==
    IF k > Len(given.stream) THEN <<>>
    ELSE <<[reply |-> ReplyAt(k), err |-> NoError]>> \o RepliesFrom(EndAt(k) + 1)

\* What the calls made so far returned.
Returns == Append(decoded, ret)

\* C25: a call that succeeds has consumed the lines of one reply and no more,
\* a call rejected for its first line has consumed that line alone; on a stream
\* of k well-formed replies k calls return those replies in order.
C25_OneReplyPerCall ==
    StreamReturned =>
        LET first == given.stream[ReadStart + 1]
            own   == CodeString(ret.reply.Code) \o " "
        IN  /\ (ret.err = NoError /\ Char(first, 4) = " ") => Consumed = 1
            /\ (ret.err = NoError /\ Char(first, 4) = "-") =>
                 /\ Consumed >= 2
                 /\ HasPrefix(given.stream[given.read], own)
                 /\ \A j \in (ReadStart + 2)..(given.read - 1) :
                      ~HasPrefix(given.stream[j], own)
            /\ ret.err.kind \in {"errors", "strconv"} => Consumed = 1
            /\ WellFormedAt(ReadStart + 1) =>
                 /\ ret = [reply |-> ReplyAt(ReadStart + 1), err |-> NoError]
                 /\ given.read = EndAt(ReadStart + 1)
            /\ (HasFirstLine /\ AllWellFormedFrom(1)) =>
                 /\ Returns = SubSeq(RepliesFrom(1), 1, Len(Returns))
                 /\ given.read = Len(given.stream) => Returns = RepliesFrom(1)

C25_Witness ==
    /\ StreamReturned
    /\ given.stream = <<"123-First line", "Second line", "123 The last line",
                        "500 Error", "200-a", "500 e", "200 ok">>
    /\ given.read = 7
    /\ Returns = <<[reply |-> Reply(123, "First line\nSecond line\nThe last line"),
                    err |-> NoError],
                   [reply |-> Reply(500, "Error"), err |-> NoError],
                   [reply |-> Reply(200, "a\n500 e\nok"), err |-> NoError]>>

\* Why a call has returned: a reply was framed, the first line was rejected, or
\* the line source failed. A multi-line reply is framed by its terminator.
C26_ReturnedForCause ==
    StreamReturned =>
        \/ /\ ret.err = NoError
           /\ Char(given.stream[ReadStart + 1], 4) = " "
           /\ Consumed = 1
        \/ /\ ret.err = NoError
           /\ Char(given.stream[ReadStart + 1], 4) = "-"
           /\ Consumed >= 2
           /\ HasPrefix(given.stream[given.read], CodeString(ret.reply.Code) \o " ")
        \/ /\ ret.err.kind \in {"errors", "strconv"}
           /\ Consumed = 1
        \/ /\ ret.err = NewError("transport", "read")
           /\ given.read = Len(given.stream)
           /\ Happened("readError")

\* C26: response returns only for one of these causes, never with success
\* inside a multi-line reply whose terminator has not been read, and on a
\* finite line source every call returns.
C26_Returns ==
    /\ []C26_ReturnedForCause
    /\ (pc \in {"response", "response_loop"}) ~> StreamReturned

\* A multi-line reply was cut short by the source, and the call has returned.
C26_Witness ==
    /\ StreamReturned
    /\ given.stream = <<"500 Error", "200-a">>
    /\ given.read = 2
    /\ decoded = <<[reply |-> Reply(500, "Error"), err |-> NoError]>>
    /\ ret.err = NewError("transport", "read")

----------------------------------------------------------------------------
(* Properties of two callers sharing a Client. *)

\* The Reply the server's answer to a command amounts to.
AnswerTo(c) == IF c = "HELP" THEN Reply(214, c \o "\nend") ELSE Reply(200, c)

\* Caller c's Do has returned a reply.
GotReply(c) ==
    /\ pc[c] = "idle"
    /\ op[c].name = "Do"
    /\ result[c] # NoReturn
    /\ result[c].err = NoError

\* C21: while the calls made so far were strictly sequential, each Do that
\* returns a reply returns the reply to its own command, and leaves nothing
\* unread; with overlapping calls a caller can be handed the reply to the
\* other caller's command (the witness).
C21_SequentialOwnReply ==
    log = <<>> =>
        \A c \in Callers :
            GotReply(c) =>
                /\ result[c].reply = AnswerTo(op[c].command)
                /\ (\A d \in Callers : pc[d] = "idle") => given.read = Len(given.stream)

C21_Witness ==
    /\ log # <<>>
    /\ GotReply("A") /\ GotReply("B")
    /\ op["A"].command = "NOOP" /\ op["B"].command = "HELP"
    /\ result["A"].reply = AnswerTo("HELP")
    /\ result["B"].reply = AnswerTo("NOOP")

\* Sequential calls do return their own replies.
C21_SequentialReached ==
    /\ log = <<>>
    /\ Len(written) = 2
    /\ GotReply("A") /\ GotReply("B")
    /\ result["A"].reply = AnswerTo("HELP")
    /\ result["B"].reply = AnswerTo("NOOP")
    /\ op["A"].command = "HELP" /\ op["B"].command = "NOOP"

----------------------------------------------------------------------------
(* Properties of the control channel between operations. *)

\* No operation is in progress and no data connection is open.
AtRest == pc = "idle" /\ constructed /\ sock # "open"

\* C22: against a server that keeps to the protocol and with a caller that
\* closes each data connection before its next command, whenever no operation
\* is in progress and no data connection is open no reply is pending unread.
C22_NoReplyPending == AtRest => Unread = 0

\* What is kept: a Close that returns with a reply pending is one whose
\* transport close failed, or one that found replies pending already.
C22_PendingAfterClose ==
    (AtRest /\ Unread > 0 /\ Returned("Close")) =>
        \/ \E c \in At("dataClose") : log[c].s = "error"
        \/ Happened("reply")

====
